---- MODULE Spec2Model ----
(***************************************************************************)
(* A model of src/src/message.js: the Message class of a chat-bot          *)
(* framework.  It covers the conversation identity computed by the         *)
(* constructor, the conversation router (route, cancel,                    *)
(* attachOverrideRoute) over the external conversation store, the          *)
(* outbound dispatcher (say, respond, _processInput), the message          *)
(* classifier (isMessage .. isAnyOf, stripDirectMention) and the mention   *)
(* parser (usersMentioned .. linksMentioned).                              *)
(*                                                                         *)
(* JavaScript values are tagged records, so that values of different       *)
(* types can be compared: a string is a sequence of fragments (single      *)
(* characters where the characters matter), an object is a function from   *)
(* field names to values, an array is a sequence of values.                *)
(***************************************************************************)
EXTENDS Integers, Sequences, FiniteSets, TLC

VARIABLES
    ctorArgs,   \* identity: the meta given to each constructor call
    built,      \* identity: the Message each constructor call returned
    msgs,       \* router: the live Message objects, by name
    inbound,    \* router: the Message the receiver is dispatching, or null
    store,      \* router: slackapp.convoStore, conversation key -> record
    routes,     \* router: the handler keys slackapp.getRoute knows
    now,        \* router: Date.now(), in milliseconds
    lastOp,     \* router (history): the latest route/cancel call per key
    last,       \* the latest operation, the collaborator calls it made,
                \* and whether it threw
    inflight    \* dispatcher: the HTTP requests of respond that await a response

identVars == <<ctorArgs, built>>
routerVars == <<msgs, inbound, store, routes, now, lastOp>>
dispatchVars == <<inflight>>
vars == <<ctorArgs, built, msgs, inbound, store, routes, now, lastOp, last, inflight>>

-----------------------------------------------------------------------------
(* JavaScript values *)

Undefined == [t |-> "undefined"]
Null == [t |-> "null"]
Bool(b) == [t |-> "boolean", v |-> b]
Str(s) == [t |-> "string", v |-> s]
Num(n) == [t |-> "number", v |-> n]
Obj(o) == [t |-> "object", v |-> o]
Arr(a) == [t |-> "array", v |-> a]
EmptyObject == Obj(<<>>)

\* ToBoolean: undefined, null, 0 and '' are falsy; objects and arrays are truthy.
Truthy(x) ==
    CASE x.t = "undefined" -> FALSE
      [] x.t = "null" -> FALSE
      [] x.t = "boolean" -> x.v
      [] x.t = "number" -> x.v # 0
      [] x.t = "string" -> x.v # <<>>
      [] OTHER -> TRUE

\* a || b
Or(a, b) == IF Truthy(a) THEN a ELSE b

\* Array.prototype.join renders undefined and null as the empty string.
JoinItem(x) == IF x.t \in {"undefined", "null"} THEN <<>> ELSE x.v

RECURSIVE JoinFrom(_, _, _)
JoinFrom(items, sep, i) ==
    IF i > Len(items) THEN <<>>
    ELSE IF i = Len(items) THEN JoinItem(items[i])
    ELSE JoinItem(items[i]) \o sep \o JoinFrom(items, sep, i + 1)

Join(items, sep) == Str(JoinFrom(items, sep.v, 1))

\* Object.assign({}, a, b) on property maps: b's fields win.
Assign(a, b) ==
    [f \in (DOMAIN a) \cup (DOMAIN b) |-> IF f \in DOMAIN b THEN b[f] ELSE a[f]]

\* delete o[f]
Delete(o, f) == [g \in (DOMAIN o) \ {f} |-> o[g]]

\* x[f] for a value x that is neither undefined nor null: strings and the
\* other primitives have none of the fields the model reads.
GetProp(x, f) == IF x.t = "object" /\ f \in DOMAIN x.v THEN x.v[f] ELSE Undefined

\* The own enumerable properties Object.assign copies from a source:
\* none for undefined, null and numbers.
OwnProps(x) == IF x.t = "object" THEN x.v ELSE <<>>

\* String.prototype.includes
Includes(s, sub) ==
    \E i \in 0..(Len(s) - Len(sub)) : SubSeq(s, i + 1, i + Len(sub)) = sub

\* Error(message)
Error(message) == [t |-> "error", message |-> message]

Fn(name) == [t |-> "function", name |-> name]

-----------------------------------------------------------------------------
(* Message: constructor and attachSlackApp *)

Separator == Str(<<":", ":">>)

NoOverride == [t |-> "undefined"]

ConversationIdUserOnly(meta) ==
    Join(<<meta.team_id, meta.channel_id, meta.user_id>>, Separator)

ConversationId(meta) ==
    Join(<<meta.team_id, meta.channel_id, Or(meta.user_id, meta.bot_id)>>, Separator)

Message(type, body, meta) ==
    [type |-> type,
     body |-> body,
     meta |-> meta,
     conversation_id |-> ConversationId(meta),
     slackapp |-> Null,
     override |-> NoOverride]

AttachSlackApp(msg, slackapp) == [msg EXCEPT !.slackapp = slackapp]

\* The SlackApp every message of the model is attached to.
SlackApp == Str(<<"slackapp">>)

MessageBody == Obj([event |-> Obj([type |-> Str(<<"message">>), text |-> Str(<<"h", "i">>)])])

-----------------------------------------------------------------------------
(* The collaborators of the router: conversation store and route registry *)

\* convoStore.set(key, value): replaces the entry of key, and only that one.
StoreSet(s, key, value) ==
    [k \in (DOMAIN s) \cup {key} |-> IF k = key THEN value ELSE s[k]]

\* convoStore.get(key): the entry, or undefined.
StoreGet(s, key) == IF key \in DOMAIN s THEN s[key] ELSE Undefined

\* convoStore.del(key): removes the entry of key; no error when there is none.
StoreDel(s, key) == [k \in (DOMAIN s) \ {key} |-> s[k]]

\* slackapp.getRoute(fnKey): the registered handler, or undefined.
Handler(fnKey) == [t |-> "function", name |-> fnKey]

GetRoute(fnKey) == IF fnKey \in routes THEN Handler(fnKey) ELSE Undefined

-----------------------------------------------------------------------------
(* The bounds and inputs of the router *)

MaxTicks == 1
MsPerSecond == 1000

Msgs == {"m1", "m2", "m3"}

\* m1 and m2 are two events of one user in one channel (one conversation),
\* m3 is an event of that user in a direct channel (another conversation).
MetaOf(m) ==
    [team_id |-> Str(<<"T1">>),
     channel_id |-> IF m = "m3" THEN Str(<<"D", "2">>) ELSE Str(<<"C", "1">>),
     user_id |-> Str(<<"U1">>),
     bot_id |-> Undefined,
     bot_token |-> IF m = "m2" THEN Undefined ELSE Str(<<"xoxb">>),
     app_token |-> Str(<<"xoxp">>),
     bot_user_id |-> Str(<<"U", "B", "O", "T">>)]

NewMessage(m) == AttachSlackApp(Message(Str(<<"event">>), MessageBody, MetaOf(m)), SlackApp)

Keys == {ConversationId(MetaOf(m)) : m \in Msgs}

FnKeys == {Str(<<"ask">>), Str(<<"gone">>)}
StateInputs == {Undefined, Num(0), Obj([step |-> Num(1)])}
SecondsInputs == {Undefined, Null, Num(0), Num(1)}

NoOp == [op |-> "none"]
Call(fn, args) == [fn |-> fn, args |-> args]

\* What a method call did: the receiver object after the call, the value
\* returned, the collaborator calls made, and whether it threw.
Returned(self, value, calls) ==
    [threw |-> FALSE, self |-> self, value |-> value, calls |-> calls]
Thrown(self, error, calls) ==
    [threw |-> TRUE, self |-> self, value |-> error, calls |-> calls]

\* The record of a completed operation: the message it was called on, its
\* arguments, and what it did.
Done(op, m, args, r) ==
    [op |-> op, m |-> m, args |-> args, calls |-> r.calls, threw |-> r.threw,
     ret |-> r.value]

\* No operation is in progress: control is back in the event loop.
Idle == [op |-> "idle"]

-----------------------------------------------------------------------------
(* Message.attachOverrideRoute *)

\* this.override = (msg) => fn(msg, state)
Override(fn, state) == [t |-> "function", fn |-> fn, state |-> state]

attachOverrideRouteEvicts(msg, fnKey, state) ==
    LET rec == StoreGet(store, msg.conversation_id)
    IN  IF rec # Undefined /\ now >= rec.v.expiration.v
        THEN Returned(msg, msg, <<Call("convoStore.del", <<msg.conversation_id>>)>>)
        ELSE LET fn == GetRoute(fnKey)
                 calls == <<Call("getRoute", <<fnKey>>)>>
             IN  IF Truthy(fn)
                 THEN LET self == [msg EXCEPT !.override = Override(fn, state)]
                      IN  Returned(self, self, calls)
                 ELSE Returned(msg, msg, calls)

attachOverrideRouteThrows(msg, fnKey, state) ==
    LET fn == GetRoute(fnKey)
        calls == <<Call("getRoute", <<fnKey>>)>>
    IN  IF Truthy(fn)
        THEN LET self == [msg EXCEPT !.override = Override(fn, state)]
             IN  Returned(self, self, calls)
        ELSE Thrown(msg, Str(<<"no route">>), calls)

attachOverrideRouteNoState(msg, fnKey, state) ==
    LET fn == GetRoute(fnKey)
        calls == <<Call("getRoute", <<fnKey>>)>>
    IN  IF Truthy(fn)
        THEN LET self == [msg EXCEPT !.override = Override(fn, Undefined)]
             IN  Returned(self, self, calls)
        ELSE Returned(msg, msg, calls)

attachOverrideRoute(msg, fnKey, state) ==
    LET fn == GetRoute(fnKey)
        calls == <<Call("getRoute", <<fnKey>>)>>
    IN  IF Truthy(fn)
        THEN LET self == [msg EXCEPT !.override = Override(fn, state)]
             IN  Returned(self, self, calls)
        ELSE Returned(msg, msg, calls)

\* override(event): the handler is called with the event and the saved state.
callOverride(override, event) ==
    Returned(override, Undefined, <<Call("handler", <<override.fn, event, override.state>>)>>)

-----------------------------------------------------------------------------
(* Message.route and Message.cancel *)

Hour == 60 * 60

routeStrictDefault(msg, fnKey, state, secondsToExpire, clock) ==
    LET state1 == IF ~Truthy(state) THEN EmptyObject ELSE state
        seconds == IF secondsToExpire = Undefined THEN Num(Hour) ELSE secondsToExpire
        key == msg.conversation_id
        expiration == Num(clock + (IF seconds = Null THEN 0 ELSE seconds.v) * MsPerSecond)
        record == Obj([fnKey |-> fnKey, state |-> state1, expiration |-> expiration])
    IN  Returned(msg, msg, <<Call("convoStore.set", <<key, record>>)>>)

routeTeamKey(msg, fnKey, state, secondsToExpire, clock) ==
    LET state1 == IF ~Truthy(state) THEN EmptyObject ELSE state
        seconds == IF ~Truthy(secondsToExpire) THEN Num(Hour) ELSE secondsToExpire
        key == msg.meta.team_id
        expiration == Num(clock + seconds.v * MsPerSecond)
        record == Obj([fnKey |-> fnKey, state |-> state1, expiration |-> expiration])
    IN  Returned(msg, msg, <<Call("convoStore.set", <<key, record>>)>>)

route(msg, fnKey, state, secondsToExpire, clock) ==
    LET state1 == IF ~Truthy(state) THEN EmptyObject ELSE state
        seconds == IF ~Truthy(secondsToExpire) THEN Num(Hour) ELSE secondsToExpire
        key == msg.conversation_id
        expiration == Num(clock + seconds.v * MsPerSecond)
        record == Obj([fnKey |-> fnKey, state |-> state1, expiration |-> expiration])
    IN  Returned(msg, msg, <<Call("convoStore.set", <<key, record>>)>>)

cancelNothing(msg) == Returned(msg, Undefined, <<>>)

cancel(msg) ==
    Returned(msg, Undefined, <<Call("convoStore.del", <<msg.conversation_id>>)>>)

\* The store after the calls an operation made on it, in order.
RECURSIVE Apply(_, _, _)
Apply(s, calls, i) ==
    IF i > Len(calls) THEN s
    ELSE LET c == calls[i]
             s1 == CASE c.fn = "convoStore.set" -> StoreSet(s, c.args[1], c.args[2])
                     [] c.fn = "convoStore.del" -> StoreDel(s, c.args[1])
                     [] OTHER -> s
         IN  Apply(s1, calls, i + 1)

Route(m, fnKey, state, secondsToExpire) ==
    LET r == route(msgs[m], fnKey, state, secondsToExpire, now)
    IN  /\ last = Idle
        /\ store' = Apply(store, r.calls, 1)
        /\ msgs' = [msgs EXCEPT ![m] = r.self]
        /\ lastOp' = [lastOp EXCEPT ![msgs[m].conversation_id] =
                         [op |-> "route", fnKey |-> fnKey, state |-> state,
                          secondsToExpire |-> secondsToExpire, at |-> now]]
        /\ last' = Done("route", m, <<fnKey, state, secondsToExpire>>, r)
        /\ UNCHANGED <<inbound, routes, now, identVars, dispatchVars>>

Cancel(m) ==
    LET r == cancel(msgs[m])
    IN  /\ last = Idle
        /\ store' = Apply(store, r.calls, 1)
        /\ msgs' = [msgs EXCEPT ![m] = r.self]
        /\ lastOp' = [lastOp EXCEPT ![msgs[m].conversation_id] = [op |-> "cancel"]]
        /\ last' = Done("cancel", m, <<>>, r)
        /\ UNCHANGED <<inbound, routes, now, identVars, dispatchVars>>

-----------------------------------------------------------------------------
(* The receiver's resolution of a pending continuation, the call of the    *)
(* override, and the clock                                                 *)

\* A continuation is pending while its expiresAt is still ahead.
Pending(rec) == rec # Undefined /\ now < rec.v.expiration.v

\* A new event of the conversation of m arrives: the receiver builds the
\* Message, reads the store and, when a continuation is pending, hands its
\* handler key and state to attachOverrideRoute.
Receive(m) ==
    LET msg == NewMessage(m)
        rec == StoreGet(store, msg.conversation_id)
        get == <<Call("convoStore.get", <<msg.conversation_id>>)>>
        r == IF Pending(rec)
             THEN attachOverrideRoute(msg, rec.v.fnKey, rec.v.state)
             ELSE Returned(msg, msg, <<>>)
    IN  /\ last = Idle
        /\ inbound' = r.self
        /\ store' = Apply(store, r.calls, 1)
        /\ last' = Done("receive", m, <<>>, [r EXCEPT !.calls = get \o r.calls])
        /\ UNCHANGED <<msgs, routes, now, lastOp, identVars, dispatchVars>>

\* The receiver calls the override of the message it has just resolved:
\* inbound.override(event), the event being the inbound message itself or
\* another message.
Events == Msgs \cup {"inbound"}
EventOf(e) == IF e = "inbound" THEN inbound ELSE msgs[e]

InvokeOverride(e) ==
    /\ last # Idle
    /\ last.op = "receive"
    /\ inbound.override # NoOverride
    /\ last' = Done("override", last.m, <<e>>, callOverride(inbound.override, EventOf(e)))
    /\ UNCHANGED <<routerVars, identVars, dispatchVars>>

Tick ==
    /\ last = Idle
    /\ now < MaxTicks * MsPerSecond
    /\ now' = now + MsPerSecond
    /\ UNCHANGED <<msgs, inbound, store, routes, lastOp, last, identVars, dispatchVars>>

\* A new version of the application is deployed, without the handler "gone".
Redeploy ==
    /\ last = Idle
    /\ Str(<<"gone">>) \in routes
    /\ routes' = routes \ {Str(<<"gone">>)}
    /\ UNCHANGED <<msgs, inbound, store, now, lastOp, last, identVars, dispatchVars>>

\* The operation has returned and its caller goes on; the receiver is done
\* with the inbound message.
Resume ==
    /\ last # Idle
    /\ last' = Idle
    /\ inbound' = Null
    /\ UNCHANGED <<msgs, store, routes, now, lastOp, identVars, dispatchVars>>

IdleIdentity == ctorArgs = <<>> /\ built = <<>>
IdleDispatch == inflight = <<>>
IdleRouter ==
    /\ msgs = <<>>
    /\ inbound = Null
    /\ store = <<>>
    /\ routes = {}
    /\ now = 0
    /\ lastOp = <<>>

InitRouter ==
    /\ msgs = [m \in Msgs |-> NewMessage(m)]
    /\ inbound = Null
    /\ store = <<>>
    /\ routes = FnKeys
    /\ now = 0
    /\ lastOp = [k \in Keys |-> NoOp]
    /\ last = Idle
    /\ IdleIdentity
    /\ IdleDispatch

NextRouter ==
    \/ \E m \in Msgs, fnKey \in FnKeys, state \in StateInputs, s \in SecondsInputs :
          Route(m, fnKey, state, s)
    \/ \E m \in Msgs : Cancel(m)
    \/ \E m \in Msgs : Receive(m)
    \/ \E e \in Events : InvokeOverride(e)
    \/ Tick
    \/ Redeploy
    \/ Resume

SpecRouter == InitRouter /\ [][NextRouter]_vars

-----------------------------------------------------------------------------
(* Conversation identity: the constructor on metas drawn from short        *)
(* identifier strings                                                      *)

MaxIdLen == 1

IdAlphabet == {"a", ":"}
IdStrings == UNION {[1..n -> IdAlphabet] : n \in 0..MaxIdLen}
IdInputs == {Undefined} \cup {Str(s) : s \in IdStrings}

MetaInputs ==
    [team_id : IdInputs,
     channel_id : IdInputs,
     user_id : IdInputs,
     bot_id : {Undefined, Str(<<"a">>)},
     bot_token : {Str(<<"xoxb">>)},
     app_token : {Str(<<"xoxp">>)},
     bot_user_id : {Str(<<"UBOT">>)}]

Slots == {1, 2}

InitIdentity ==
    /\ ctorArgs \in [Slots -> MetaInputs]
    /\ built = <<>>
    /\ last = Idle
    /\ IdleRouter
    /\ IdleDispatch

\* new Message(type, body, meta) for the meta of slot i
Construct(i) ==
    /\ i \notin DOMAIN built
    /\ built' = [j \in (DOMAIN built) \cup {i} |->
                    IF j = i THEN Message(Str(<<"event">>), MessageBody, ctorArgs[i])
                    ELSE built[j]]
    /\ UNCHANGED <<ctorArgs, last, routerVars, dispatchVars>>

NextIdentity == \E i \in Slots : Construct(i)

SpecIdentity == InitIdentity /\ [][NextIdentity]_vars

-----------------------------------------------------------------------------
(* Outbound dispatcher: _processInput, say, respond *)

MaxInflight == 1
RandomDen == 4

\* Math.random() is one of 0/RandomDen .. (RandomDen-1)/RandomDen, given by
\* its numerator.
Randoms == 0..(RandomDen - 1)

\* Math.floor(random * length)
RandomIndex(random, length) == (random * length) \div RandomDen

\* array[i], undefined outside the array
At(array, i) == IF i + 1 \in 1..Len(array) THEN array[i + 1] ELSE Undefined

processInputWrapFirst(input, random) ==
    LET wrapped == IF input.t = "string" THEN Obj([text |-> input]) ELSE input
    IN  IF wrapped.t = "array"
        THEN At(wrapped.v, RandomIndex(random, Len(wrapped.v)))
        ELSE wrapped

processInput(input, random) ==
    LET picked == IF input.t = "array"
                  THEN At(input.v, RandomIndex(random, Len(input.v)))
                  ELSE input
    IN  IF picked.t = "string" THEN Obj([text |-> picked]) ELSE picked

\* () => {}
Noop == Fn("noop")

sayAndCancel(msg, input, callback, random) ==
    LET callback1 == IF ~Truthy(callback) THEN Noop ELSE callback
        input1 == processInput(input, random)
        payload == Obj(Assign(Assign(<<>>, OwnProps(input1)),
                              [token |-> Or(msg.meta.bot_token, msg.meta.app_token),
                               channel |-> msg.meta.channel_id]))
    IN  Returned(msg, msg, <<Call("slack.chat.postMessage", <<payload, callback1>>),
                             Call("convoStore.del", <<msg.conversation_id>>)>>)

say(msg, input, callback, random) ==
    LET callback1 == IF ~Truthy(callback) THEN Noop ELSE callback
        input1 == processInput(input, random)
        payload == Obj(Assign(Assign(<<>>, OwnProps(input1)),
                              [token |-> Or(msg.meta.bot_token, msg.meta.app_token),
                               channel |-> msg.meta.channel_id]))
    IN  Returned(msg, msg, <<Call("slack.chat.postMessage", <<payload, callback1>>)>>)

\* The response handler respond gives to request, closed over the callback.
ResponseHandler(callback) ==
    [t |-> "function", name |-> "responseHandler", callback |-> callback]

respond(msg, responseUrl, input, callback, random) ==
    LET callback1 == IF ~Truthy(callback) THEN Noop ELSE callback
        input1 == processInput(input, random)
        options == Obj([uri |-> responseUrl, method |-> Str(<<"POST">>), json |-> input1])
    IN  Returned(msg, msg, <<Call("request", <<options, ResponseHandler(callback1)>>)>>)

RateLimit == Str(<<"You are sending too many requests. Please relax.">>)

responseHandlerRetries(handler, err, res, body) ==
    LET callback == handler.callback
    IN  IF Truthy(err)
        THEN Returned(handler, Undefined, <<Call(callback.name, <<err>>)>>)
        ELSE IF body.t \in {"undefined", "null"}
        THEN Thrown(handler, Error(Str(<<"TypeError">>)), <<>>)
        ELSE IF Truthy(GetProp(body, "error"))
        THEN Returned(handler, Undefined,
                      <<Call(callback.name, <<Error(GetProp(body, "error"))>>)>>)
        ELSE IF body.t = "string" /\ Includes(body.v, RateLimit.v)
        THEN Returned(handler, Undefined,
                      <<Call("request", <<Undefined, handler>>),
                        Call(callback.name, <<Error(Str(<<"rate_limit">>))>>)>>)
        ELSE LET body1 == IF body.t = "object" THEN Obj(Delete(body.v, "ok")) ELSE body
             IN  Returned(handler, Undefined, <<Call(callback.name, <<Null, body1>>)>>)

\* (err, res, body) => { ... } of respond
responseHandler(handler, err, res, body) ==
    LET callback == handler.callback
    IN  IF Truthy(err)
        THEN Returned(handler, Undefined, <<Call(callback.name, <<err>>)>>)
        ELSE IF body.t \in {"undefined", "null"}
        THEN \* body.error: TypeError, a property read of undefined or null
             Thrown(handler, Error(Str(<<"TypeError">>)), <<>>)
        ELSE IF Truthy(GetProp(body, "error"))
        THEN Returned(handler, Undefined,
                      <<Call(callback.name, <<Error(GetProp(body, "error"))>>)>>)
        ELSE IF body.t = "string" /\ Includes(body.v, RateLimit.v)
        THEN Returned(handler, Undefined,
                      <<Call(callback.name, <<Error(Str(<<"rate_limit">>))>>)>>)
        ELSE LET body1 == IF body.t = "object" THEN Obj(Delete(body.v, "ok")) ELSE body
             IN  Returned(handler, Undefined, <<Call(callback.name, <<Null, body1>>)>>)

Inputs ==
    {Undefined,
     Str(<<"hi">>),
     Obj([text |-> Str(<<"yo">>)]),
     Obj([text |-> Str(<<"yo">>), channel |-> Str(<<"C9">>), token |-> Str(<<"xoxp-own">>)]),
     Arr(<<>>),
     Arr(<<Str(<<"a">>)>>),
     Arr(<<Str(<<"a">>), Obj([text |-> Str(<<"b">>)]), Str(<<"c">>)>>)}

Callbacks == {Undefined, Fn("callback")}
ResponseUrls == {Str(<<"https://hooks.slack.com/actions/1">>)}

TransportError == Error(Str(<<"ECONNRESET">>))

Bodies ==
    {Undefined,
     Null,
     Str(<<>>),
     Str(<<"ok">>),
     RateLimit,
     Str(<<"<p>", RateLimit.v[1], "</p>">>),
     Obj([ok |-> Bool(TRUE)]),
     Obj([ok |-> Bool(TRUE), ts |-> Str(<<"1.2">>)]),
     Obj([error |-> Str(<<"invalid_payload">>)]),
     Obj([ok |-> Bool(FALSE), error |-> Str(<<"invalid_payload">>)]),
     Obj([ok |-> Bool(TRUE), error |-> Str(<<>>)])}

\* What the HTTP call can come back with: a transport error, or a body.
Outcomes == {<<TransportError, Undefined>>} \cup {<<Null, b>> : b \in Bodies}

Say(m, input, callback, random) ==
    LET r == say(msgs[m], input, callback, random)
    IN  /\ last = Idle
        /\ msgs' = [msgs EXCEPT ![m] = r.self]
        /\ store' = Apply(store, r.calls, 1)
        /\ last' = Done("say", m, <<input, callback, random>>, r)
        /\ UNCHANGED <<inbound, routes, now, lastOp, inflight, identVars>>

Respond(m, responseUrl, input, callback, random) ==
    LET r == respond(msgs[m], responseUrl, input, callback, random)
    IN  /\ last = Idle
        /\ Len(inflight) < MaxInflight
        /\ msgs' = [msgs EXCEPT ![m] = r.self]
        /\ store' = Apply(store, r.calls, 1)
        /\ inflight' = inflight \o SelectSeq(r.calls, LAMBDA c : c.fn = "request")
        /\ last' = Done("respond", m, <<responseUrl, input, callback, random>>, r)
        /\ UNCHANGED <<inbound, routes, now, lastOp, identVars>>

\* The HTTP call of the i-th request in flight completes.
HttpResponse(i, err, body) ==
    LET r == responseHandler(inflight[i].args[2], err, Undefined, body)
    IN  /\ last = Idle
        /\ i \in 1..Len(inflight)
        /\ inflight' = SubSeq(inflight, 1, i - 1) \o SubSeq(inflight, i + 1, Len(inflight))
        /\ last' = Done("response", "none", <<err, body, inflight[i].args[2].callback>>, r)
        /\ UNCHANGED <<routerVars, identVars>>

InitDispatch ==
    /\ msgs = [m \in Msgs |-> NewMessage(m)]
    /\ inbound = Null
    /\ store = <<>>
    /\ routes = FnKeys
    /\ now = 0
    /\ lastOp = [k \in Keys |-> NoOp]
    /\ last = Idle
    /\ inflight = <<>>
    /\ IdleIdentity

NextDispatch ==
    \/ \E m \in Msgs, input \in Inputs, callback \in Callbacks, random \in Randoms :
          Say(m, input, callback, random)
    \/ \E m \in Msgs, url \in ResponseUrls, input \in Inputs, callback \in Callbacks,
          random \in Randoms :
          Respond(m, url, input, callback, random)
    \/ \E i \in 1..MaxInflight, o \in Outcomes : HttpResponse(i, o[1], o[2])
    \/ Resume

SpecDispatch == InitDispatch /\ [][NextDispatch]_vars

-----------------------------------------------------------------------------
(* Characters and the regular expressions of the classifier and the        *)
(* mention parser.  The text of an event, the channel id and the bot user  *)
(* id are sequences of single characters.                                  *)

UpperCase ==
    <<"A", "B", "C", "D", "E", "F", "G", "H", "I", "J", "K", "L", "M",
      "N", "O", "P", "Q", "R", "S", "T", "U", "V", "W", "X", "Y", "Z">>
LowerCase ==
    <<"a", "b", "c", "d", "e", "f", "g", "h", "i", "j", "k", "l", "m",
      "n", "o", "p", "q", "r", "s", "t", "u", "v", "w", "x", "y", "z">>
Digits == <<"0", "1", "2", "3", "4", "5", "6", "7", "8", "9">>

CharsOf(s) == {s[i] : i \in 1..Len(s)}

\* [A-Za-z0-9]
AlphaNum == [negated |-> FALSE, chars |-> CharsOf(UpperCase) \cup CharsOf(LowerCase) \cup CharsOf(Digits)]
\* [^@^>]
LinkChars == [negated |-> TRUE, chars |-> {"@", "^", ">"}]
NoRun == [negated |-> FALSE, chars |-> {}]

InClass(c, class) == IF class.negated THEN c \notin class.chars ELSE c \in class.chars

\* What String.prototype.trim removes, and what . does not match.
Whitespace == {" ", "\n"}
LineTerminators == {"\n"}

\* The 'i' flag compares the upper-case forms of two characters.
Canonicalize(c) ==
    IF \E i \in DOMAIN LowerCase : LowerCase[i] = c
    THEN UpperCase[CHOOSE i \in DOMAIN LowerCase : LowerCase[i] = c]
    ELSE c

\* a && b
And(a, b) == IF Truthy(a) THEN b ELSE a

\* `${x}` and String(x)
StringOf(x) ==
    CASE x.t = "string" -> x.v
      [] x.t = "undefined" -> <<"u", "n", "d", "e", "f", "i", "n", "e", "d">>
      [] x.t = "null" -> <<"n", "u", "l", "l">>
      [] OTHER -> <<>>

\* The literal lit matches in text at position i (from 1).
MatchesAt(text, i, lit, ignoreCase) ==
    /\ i + Len(lit) - 1 <= Len(text)
    /\ \A j \in 1..Len(lit) :
          IF ignoreCase
          THEN Canonicalize(text[i + j - 1]) = Canonicalize(lit[j])
          ELSE text[i + j - 1] = lit[j]

\* new RegExp(source, flags).test(text) for a source that is a literal,
\* anchored by ^ or not.
Test(lit, anchored, ignoreCase, text) ==
    \E i \in (IF anchored THEN {1} ELSE 1..(Len(text) + 1)) :
        MatchesAt(text, i, lit, ignoreCase)

\* The number of characters of the class that follow one another from
\* position from.
RECURSIVE RunLength(_, _, _)
RunLength(text, from, class) ==
    IF from <= Len(text) /\ InClass(text[from], class)
    THEN 1 + RunLength(text, from + 1, class)
    ELSE 0

\* The position of the first '>' at or after from, 0 when there is none.
FirstClose(text, from) ==
    IF \E g \in from..Len(text) : text[g] = ">"
    THEN CHOOSE g \in from..Len(text) :
            text[g] = ">" /\ \A h \in from..(g - 1) : text[h] # ">"
    ELSE 0

Min(a, b) == IF a < b THEN a ELSE b

\* The regular expressions of the mention parser share one shape: a literal
\* opening, then a group (or none) made of a literal lead and a greedy run
\* of a character class, then a tail [^>]* ("star"), [^>]+ ("plus") or
\* nothing ("none"), then '>'.
Regex(open, group, lead, run, tail) ==
    [open |-> open, group |-> group, lead |-> lead, run |-> run, tail |-> tail]

\* '<@(U[A-Za-z0-9]+)>'
UserRe == Regex(<<"<", "@">>, TRUE, <<"U">>, AlphaNum, "none")
\* '<#(C[A-Za-z0-9]+)>'
ChannelRe == Regex(<<"<", "#">>, TRUE, <<"C">>, AlphaNum, "none")
\* '<!subteam\\^(S[A-Za-z0-9]+)[^>]+>'
SubteamRe ==
    Regex(<<"<", "!", "s", "u", "b", "t", "e", "a", "m", "^">>, TRUE, <<"S">>, AlphaNum, "plus")
\* '<!everyone>'
EveryoneRe ==
    Regex(<<"<", "!", "e", "v", "e", "r", "y", "o", "n", "e">>, FALSE, <<>>, NoRun, "none")
\* '<!(channel)[^>]*>'
AtChannelRe == Regex(<<"<", "!">>, TRUE, <<"c", "h", "a", "n", "n", "e", "l">>, NoRun, "star")
\* '<!(here)[^>]*>'
HereRe == Regex(<<"<", "!">>, TRUE, <<"h", "e", "r", "e">>, NoRun, "star")
\* '<([^@^>]+)>'
LinkRe == Regex(<<"<">>, TRUE, <<>>, LinkChars, "none")

\* The match of re that starts at position i, or null.  The greedy run
\* gives back characters only to a tail that needs one.
ExecAt(re, text, i) ==
    LET p1 == i + Len(re.open)
        p2 == p1 + Len(re.lead)
        r == IF re.run = NoRun THEN 0 ELSE RunLength(text, p2, re.run)
        g == FirstClose(text, p2)
        between == g - p2
        minTail == IF re.tail = "plus" THEN 1 ELSE 0
        c == IF re.tail = "none" THEN r ELSE Min(r, between - minTail)
        ok == /\ MatchesAt(text, i, re.open, FALSE)
              /\ MatchesAt(text, p1, re.lead, FALSE)
              /\ g # 0
              /\ (re.run # NoRun => c >= 1)
              /\ (re.tail = "none" => between = c)
              /\ between - c >= minTail
    IN  IF ok
        THEN [index |-> i, lastIndex |-> g + 1,
              group |-> IF re.group THEN Str(re.lead \o SubSeq(text, p2, p2 + c - 1))
                        ELSE Undefined]
        ELSE Null

\* re.exec(text) of a global regular expression whose lastIndex is from - 1:
\* the leftmost match at or after from, or null.
Exec(re, text, from) ==
    IF \E i \in from..Len(text) : ExecAt(re, text, i) # Null
    THEN ExecAt(re, text,
                CHOOSE i \in from..Len(text) :
                    /\ ExecAt(re, text, i) # Null
                    /\ \A h \in from..(i - 1) : ExecAt(re, text, h) = Null)
    ELSE Null

\* do { matcher = re.exec(text); if (matcher) push(matcher[1]) } while (matcher)
RECURSIVE ExecAll(_, _, _)
ExecAll(re, text, from) ==
    LET matcher == Exec(re, text, from)
    IN  IF matcher = Null THEN <<>>
        ELSE <<matcher.group>> \o ExecAll(re, text, matcher.lastIndex)

\* s.split('|')[0]
BeforeBar(s) ==
    IF \E i \in 1..Len(s) : s[i] = "|"
    THEN SubSeq(s, 1, (CHOOSE i \in 1..Len(s) :
                          s[i] = "|" /\ \A h \in 1..(i - 1) : s[h] # "|") - 1)
    ELSE s

RECURSIVE TrimStart(_)
TrimStart(s) == IF s # <<>> /\ Head(s) \in Whitespace THEN TrimStart(Tail(s)) ELSE s

RECURSIVE TrimEnd(_)
TrimEnd(s) ==
    IF s # <<>> /\ s[Len(s)] \in Whitespace THEN TrimEnd(SubSeq(s, 1, Len(s) - 1)) ELSE s

\* String.prototype.trim
Trim(s) == TrimEnd(TrimStart(s))

-----------------------------------------------------------------------------
(* Message classifier *)

EventText(msg) == GetProp(GetProp(msg.body, "event"), "text")

\* `<@${this.meta.bot_user_id}>`
MentionToken(msg) == <<"<", "@">> \o StringOf(msg.meta.bot_user_id) \o <<">">>

isMessage(msg) ==
    Returned(msg,
             And(And(Bool(msg.type = Str(<<"event">>)), GetProp(msg.body, "event")),
                 Bool(GetProp(GetProp(msg.body, "event"), "type") = Str(<<"message">>))),
             <<>>)

isDirectMentionCaseSensitive(msg) ==
    Returned(msg,
             And(isMessage(msg).value,
                 Bool(Test(MentionToken(msg), TRUE, FALSE, StringOf(EventText(msg))))),
             <<>>)

isDirectMention(msg) ==
    Returned(msg,
             And(isMessage(msg).value,
                 Bool(Test(MentionToken(msg), TRUE, TRUE, StringOf(EventText(msg))))),
             <<>>)

\* s[0]
FirstChar(s) == IF s.v = <<>> THEN Undefined ELSE Str(<<s.v[1]>>)

isDirectMessage(msg) ==
    Returned(msg,
             And(isMessage(msg).value, Bool(FirstChar(msg.meta.channel_id) = Str(<<"D">>))),
             <<>>)

isMention(msg) ==
    Returned(msg,
             And(isMessage(msg).value,
                 Bool(Test(MentionToken(msg), FALSE, TRUE, StringOf(EventText(msg))))),
             <<>>)

\* !x
Not(x) == Bool(~Truthy(x))

isAmbientIgnoresChannel(msg) ==
    Returned(msg, And(isMessage(msg).value, Not(isMention(msg).value)), <<>>)

isAmbient(msg) ==
    Returned(msg,
             And(And(isMessage(msg).value, Not(isMention(msg).value)),
                 Not(isDirectMessage(msg).value)),
             <<>>)

\* The body of the loop of isAnyOf for one filter.
AnyOfStep(msg, found, filter) ==
    LET f1 == Or(found, And(Bool(filter = Str(<<"direct_message">>)), isDirectMessage(msg).value))
        f2 == Or(f1, And(Bool(filter = Str(<<"direct_mention">>)), isDirectMention(msg).value))
        f3 == Or(f2, And(Bool(filter = Str(<<"ambient">>)), isAmbient(msg).value))
    IN  Or(f3, And(Bool(filter = Str(<<"mention">>)), isMention(msg).value))

RECURSIVE AnyOfFrom(_, _, _, _)
AnyOfFrom(msg, messageFilters, found, i) ==
    IF i > Len(messageFilters) THEN found
    ELSE AnyOfFrom(msg, messageFilters, AnyOfStep(msg, found, messageFilters[i]), i + 1)

isAnyOfLast(msg, messageFilters) ==
    Returned(msg,
             IF messageFilters = <<>> THEN Bool(FALSE)
             ELSE AnyOfStep(msg, Bool(FALSE), messageFilters[Len(messageFilters)]),
             <<>>)

isAnyOf(msg, messageFilters) ==
    Returned(msg, AnyOfFrom(msg, messageFilters, Bool(FALSE), 1), <<>>)

stripDirectMention(msg) ==
    IF ~Truthy(isMessage(msg).value) THEN Returned(msg, Str(<<>>), <<>>)
    ELSE LET text == EventText(msg)
             token == MentionToken(msg)
         IN  IF text.t # "string"
             THEN \* text.match: TypeError, a property read of undefined
                  Thrown(msg, Error(Str(<<"TypeError">>)), <<>>)
             ELSE IF ~MatchesAt(text.v, 1, token, FALSE)
             THEN Returned(msg, text, <<>>)
             ELSE LET afterToken == Len(token) + 1
                      afterColon ==
                          IF afterToken <= Len(text.v) /\ text.v[afterToken] = ":"
                          THEN afterToken + 1 ELSE afterToken
                      rest == RunLength(text.v, afterColon,
                                        [negated |-> TRUE, chars |-> LineTerminators])
                      group == SubSeq(text.v, afterColon, afterColon + rest - 1)
                  IN  Returned(msg, Str(Trim(group)), <<>>)

-----------------------------------------------------------------------------
(* Mention parser *)

regexMentions(msg, re) ==
    IF Truthy(isMessage(msg).value)
    THEN Returned(msg, Arr(ExecAll(re, StringOf(EventText(msg)), 1)), <<>>)
    ELSE Returned(msg, Arr(<<>>), <<>>)

usersMentioned(msg) == regexMentions(msg, UserRe)

channelsMentioned(msg) == regexMentions(msg, ChannelRe)

subteamGroupsMentioned(msg) == regexMentions(msg, SubteamRe)

everyoneMentioned(msg) ==
    Returned(msg, Bool(Len(regexMentions(msg, EveryoneRe).value.v) > 0), <<>>)

channelMentioned(msg) ==
    Returned(msg, Bool(Len(regexMentions(msg, AtChannelRe).value.v) > 0), <<>>)

hereMentioned(msg) ==
    Returned(msg, Bool(Len(regexMentions(msg, HereRe).value.v) > 0), <<>>)

linksMentioned(msg) ==
    IF Truthy(isMessage(msg).value)
    THEN LET groups == ExecAll(LinkRe, StringOf(EventText(msg)), 1)
         IN  Returned(msg, Arr([i \in 1..Len(groups) |-> Str(BeforeBar(groups[i].v))]), <<>>)
    ELSE Returned(msg, Arr(<<>>), <<>>)

-----------------------------------------------------------------------------
(* The classifier and the mention parser on events drawn from short texts *)

MaxPieces == 2

\* The bot's mention token, the same token in lower case, the token of
\* another user, a colon, a plain word between spaces, a text of two lines,
\* a link, a labelled link and a channel mention.
Pieces ==
    {<<"<", "@", "U", "B", ">">>,
     <<"<", "@", "u", "b", ">">>,
     <<"<", "@", "U", "A", ">">>,
     <<":">>,
     <<" ", "h", "i", " ">>,
     <<"h", "i", "\n", "y", "o">>,
     <<"<", "h", ".", "c", ">">>,
     <<"<", "h", ".", "c", "|", "A", ">">>,
     <<"<", "#", "C", "1", ">">>}

RECURSIVE Concat(_, _)
Concat(pieces, i) == IF i > Len(pieces) THEN <<>> ELSE pieces[i] \o Concat(pieces, i + 1)

Texts == UNION {{Concat(ps, 1) : ps \in [1..n -> Pieces]} : n \in 0..MaxPieces}

ChannelIds == {Str(<<"D", "1">>), Str(<<"C", "1">>)}
BotUserIds == {Str(<<"U", "B">>), Str(<<"u", "b">>)}

EventMeta(channel, bot) ==
    [team_id |-> Str(<<"T1">>),
     channel_id |-> channel,
     user_id |-> Str(<<"U1">>),
     bot_id |-> Undefined,
     bot_token |-> Str(<<"xoxb">>),
     app_token |-> Str(<<"xoxp">>),
     bot_user_id |-> bot]

\* A message event; a slash command that carries an inner message payload;
\* an event without inner payload; an event whose inner payload is a
\* reaction.
EventShapes(text) ==
    {<<Str(<<"event">>), Obj([event |-> Obj([type |-> Str(<<"message">>), text |-> text])])>>,
     <<Str(<<"command">>), Obj([event |-> Obj([type |-> Str(<<"message">>), text |-> text])])>>,
     <<Str(<<"event">>), Obj([text |-> text])>>,
     <<Str(<<"event">>), Obj([event |-> Obj([type |-> Str(<<"reaction_added">>), text |-> text])])>>}

EventInputs ==
    {Message(shape[1], shape[2], EventMeta(channel, bot)) :
        shape \in UNION {EventShapes(Str(t)) : t \in Texts},
        channel \in ChannelIds, bot \in BotUserIds}

FilterNames ==
    {Str(<<"direct_message">>), Str(<<"direct_mention">>), Str(<<"mention">>),
     Str(<<"ambient">>), Str(<<"bot_message">>)}

AllFilters ==
    <<Str(<<"direct_message">>), Str(<<"direct_mention">>), Str(<<"mention">>),
      Str(<<"ambient">>)>>

\* The empty list, every list of one and of two names, and the list of the
\* four addressing modes.
FilterLists ==
    {<<>>} \cup {<<f>> : f \in FilterNames} \cup (FilterNames \X FilterNames) \cup {AllFilters}

\* A call of a method that only computes: it returns to its caller with the
\* result, after the calls it made on the store (none).
Query(op, m, args, r) ==
    /\ last = Idle
    /\ msgs' = [msgs EXCEPT ![m] = r.self]
    /\ store' = Apply(store, r.calls, 1)
    /\ last' = Done(op, m, args, r)
    /\ UNCHANGED <<inbound, routes, now, lastOp, inflight, identVars>>

IsMessage(m) == Query("isMessage", m, <<>>, isMessage(msgs[m]))
IsDirectMention(m) == Query("isDirectMention", m, <<>>, isDirectMention(msgs[m]))
IsDirectMessage(m) == Query("isDirectMessage", m, <<>>, isDirectMessage(msgs[m]))
IsMention(m) == Query("isMention", m, <<>>, isMention(msgs[m]))
IsAmbient(m) == Query("isAmbient", m, <<>>, isAmbient(msgs[m]))
IsAnyOf(m, messageFilters) ==
    Query("isAnyOf", m, <<messageFilters>>, isAnyOf(msgs[m], messageFilters))
StripDirectMention(m) == Query("stripDirectMention", m, <<>>, stripDirectMention(msgs[m]))
UsersMentioned(m) == Query("usersMentioned", m, <<>>, usersMentioned(msgs[m]))
ChannelsMentioned(m) == Query("channelsMentioned", m, <<>>, channelsMentioned(msgs[m]))
SubteamGroupsMentioned(m) ==
    Query("subteamGroupsMentioned", m, <<>>, subteamGroupsMentioned(msgs[m]))
EveryoneMentioned(m) == Query("everyoneMentioned", m, <<>>, everyoneMentioned(msgs[m]))
ChannelMentioned(m) == Query("channelMentioned", m, <<>>, channelMentioned(msgs[m]))
HereMentioned(m) == Query("hereMentioned", m, <<>>, hereMentioned(msgs[m]))
LinksMentioned(m) == Query("linksMentioned", m, <<>>, linksMentioned(msgs[m]))

\* The classifier and mention-parser calls on the message m.
Classify(m) ==
    \/ IsMessage(m)
    \/ IsDirectMention(m)
    \/ IsDirectMessage(m)
    \/ IsMention(m)
    \/ IsAmbient(m)
    \/ \E messageFilters \in FilterLists : IsAnyOf(m, messageFilters)
    \/ StripDirectMention(m)
    \/ UsersMentioned(m)
    \/ ChannelsMentioned(m)
    \/ SubteamGroupsMentioned(m)
    \/ EveryoneMentioned(m)
    \/ ChannelMentioned(m)
    \/ HereMentioned(m)
    \/ LinksMentioned(m)

\* The one message the classifier is called on.
EventNames == {"m1"}

InitClassify ==
    /\ msgs \in [EventNames -> EventInputs]
    /\ inbound = Null
    /\ store = <<>>
    /\ routes = {}
    /\ now = 0
    /\ lastOp = <<>>
    /\ last = Idle
    /\ IdleIdentity
    /\ IdleDispatch

NextClassify ==
    \/ \E m \in EventNames : Classify(m)
    \/ Resume

SpecClassify == InitClassify /\ [][NextClassify]_vars

-----------------------------------------------------------------------------
(* The whole core on the three live messages: router, dispatcher,          *)
(* classifier and mention parser over one store and one clock              *)

\* A receiver that leaves the check of the expiration to the handler: for a
\* new event of the conversation of m it reads the record of the
\* conversation and hands its handler key and state to attachOverrideRoute.
AttachOverrideRoute(m) ==
    LET msg == NewMessage(m)
        rec == StoreGet(store, msg.conversation_id)
        r == attachOverrideRoute(msg, rec.v.fnKey, rec.v.state)
    IN  /\ last = Idle
        /\ rec # Undefined
        /\ inbound' = r.self
        /\ store' = Apply(store, r.calls, 1)
        /\ last' = Done("attachOverrideRoute", m, <<rec.v.fnKey, rec.v.state>>, r)
        /\ UNCHANGED <<msgs, routes, now, lastOp, identVars, dispatchVars>>

CoreStates == {Obj([step |-> Num(1)])}
CoreSeconds == {Undefined, Num(1)}
CoreInputs == {Str(<<"hi">>)}
CoreCallbacks == {Fn("callback")}
CoreOutcomes == {<<TransportError, Undefined>>, <<Null, Obj([ok |-> Bool(TRUE)])>>}

InitCore ==
    /\ msgs = [m \in Msgs |-> NewMessage(m)]
    /\ inbound = Null
    /\ store = <<>>
    /\ routes = FnKeys
    /\ now = 0
    /\ lastOp = [k \in Keys |-> NoOp]
    /\ last = Idle
    /\ inflight = <<>>
    /\ IdleIdentity

NextCore ==
    \/ \E m \in Msgs, fnKey \in FnKeys, state \in CoreStates, s \in CoreSeconds :
          Route(m, fnKey, state, s)
    \/ \E m \in Msgs : Cancel(m)
    \/ \E m \in Msgs : Receive(m)
    \/ \E m \in Msgs : AttachOverrideRoute(m)
    \/ \E m \in Msgs, input \in CoreInputs, callback \in CoreCallbacks :
          Say(m, input, callback, 0)
    \/ \E m \in Msgs, url \in ResponseUrls, input \in CoreInputs, callback \in CoreCallbacks :
          Respond(m, url, input, callback, 0)
    \/ \E i \in 1..MaxInflight, o \in CoreOutcomes : HttpResponse(i, o[1], o[2])
    \/ \E m \in Msgs : Classify(m)
    \/ Tick
    \/ Resume

SpecCore == InitCore /\ [][NextCore]_vars

-----------------------------------------------------------------------------
(* Properties of the conversation identity, checked under SpecIdentity *)

\* The (team, channel, actor) triple of a meta, the actor being
\* user_id || bot_id.
Triple(meta) == <<meta.team_id, meta.channel_id, Or(meta.user_id, meta.bot_id)>>

\* The triple with a missing identifier read as the empty string.
Present(id) == IF id = Undefined THEN Str(<<>>) ELSE id
PresentTriple(meta) ==
    <<Present(meta.team_id), Present(meta.channel_id),
      Present(Or(meta.user_id, meta.bot_id))>>

HasColon(id) == id # Undefined /\ \E i \in 1..Len(id.v) : id.v[i] = ":"
PlainPrefix(meta) == ~HasColon(meta.team_id) /\ ~HasColon(meta.channel_id)

\* C6 as stated: the conversation key is deterministic and injective in
\* (team id, channel id, actor): equal triples give equal keys and triples
\* that differ give different keys, for all identifiers, empty, missing or
\* containing the separator.
C6_InjectiveForAll ==
    \A i, j \in DOMAIN built :
        (Triple(ctorArgs[i]) = Triple(ctorArgs[j]))
            <=> (built[i].conversation_id = built[j].conversation_id)

\* C6 as amended: with a missing identifier read as the empty string, equal
\* triples give equal keys (for all identifiers), and triples that differ give
\* different keys provided that no team id and no channel id contains ':'.
C6_Injective ==
    \A i, j \in DOMAIN built :
        /\ (PresentTriple(ctorArgs[i]) = PresentTriple(ctorArgs[j])) =>
              (built[i].conversation_id = built[j].conversation_id)
        /\ (/\ PlainPrefix(ctorArgs[i])
            /\ PlainPrefix(ctorArgs[j])
            /\ PresentTriple(ctorArgs[i]) # PresentTriple(ctorArgs[j])) =>
              (built[i].conversation_id # built[j].conversation_id)

\* Two metas that differ only in the actor, one taken from the bot id and one
\* holding a ':', got different keys.
C6_Witness ==
    /\ DOMAIN built = Slots
    /\ ctorArgs[1].team_id = ctorArgs[2].team_id
    /\ ctorArgs[1].channel_id = ctorArgs[2].channel_id
    /\ PlainPrefix(ctorArgs[1])
    /\ ctorArgs[1].user_id = Undefined /\ ctorArgs[1].bot_id = Str(<<"a">>)
    /\ ctorArgs[2].user_id = Str(<<":">>)
    /\ built[1].conversation_id # built[2].conversation_id

-----------------------------------------------------------------------------
(* Properties of the router, checked under SpecRouter *)

KeyOf(m) == msgs[m].conversation_id
After(op) == last # Idle /\ last.op = op

\* When the receiver reads a record back before its expiration and the
\* registry knows its handler key, attachOverrideRoute sets an override for
\* that handler and the state of the record.
ReadBack ==
    After("receive") =>
        LET rec == StoreGet(store, KeyOf(last.m))
        IN  (Pending(rec) /\ rec.v.fnKey \in routes) =>
                inbound.override = Override(Handler(rec.v.fnKey), rec.v.state)

\* Calling the override with an event calls its handler exactly once, with
\* (event, state).
HandlerCalledOnce ==
    After("override") =>
        last.calls = <<Call("handler", <<inbound.override.fn, EventOf(last.args[1]),
                                         inbound.override.state>>)>>

\* C1 as stated: round trip of the continuation state.  The record that
\* route(fnKey, state) wrote carries fnKey and exactly the state value that
\* was passed to route (whenever one was passed); read back before its
\* expiration and given to attachOverrideRoute, it yields an override that
\* calls the registered handler exactly once with (event, state).
C1_RoundTripExact ==
    /\ (After("route") /\ last.args[2] # Undefined) =>
          LET rec == StoreGet(store, KeyOf(last.m))
          IN  rec # Undefined /\ rec.v.fnKey = last.args[1] /\ rec.v.state = last.args[2]
    /\ ReadBack
    /\ HandlerCalledOnce

\* C1 as amended: the same round trip, where the state that comes back is the
\* value passed to route when that value is truthy, and a new empty object
\* when it is omitted or falsy (undefined, null, 0, '').
C1_RoundTrip ==
    /\ After("route") =>
          LET rec == StoreGet(store, KeyOf(last.m))
          IN  /\ rec # Undefined
              /\ rec.v.fnKey = last.args[1]
              /\ rec.v.state = IF Truthy(last.args[2]) THEN last.args[2] ELSE EmptyObject
    /\ ReadBack
    /\ HandlerCalledOnce

\* The handler was called with the object that was passed to route as state.
C1_Witness ==
    /\ After("override")
    /\ last.calls[1].args[3] = Obj([step |-> Num(1)])
    /\ lastOp[KeyOf(last.m)].op = "route"
    /\ lastOp[KeyOf(last.m)].state = Obj([step |-> Num(1)])

\* The record a route call is expected to leave in the store.
ExpectedRecord(fnKey, state, secondsToExpire, at) ==
    Obj([fnKey |-> fnKey,
         state |-> IF state \in {Undefined, Null, Num(0), Str(<<>>)} THEN Obj(<<>>) ELSE state,
         expiration |-> Num(at + (IF secondsToExpire \in {Undefined, Null, Num(0)}
                                  THEN 3600 ELSE secondsToExpire.v) * 1000)])

\* C2: last write wins per conversation key.  For every key, a lookup returns
\* exactly the record of the most recent route on that key when the most
\* recent route or cancel on it was a route, and nothing when it was a cancel
\* (or when there was none); the store holds nothing under any other key.
C2_LastWriteWins ==
    /\ DOMAIN store \subseteq Keys
    /\ \A k \in Keys :
          LET g == lastOp[k]
          IN  IF g.op = "route"
              THEN StoreGet(store, k) =
                      ExpectedRecord(g.fnKey, g.state, g.secondsToExpire, g.at)
              ELSE StoreGet(store, k) = Undefined

\* Two routes were made on one key at different times and the later record is
\* the one in the store, while the other key was cancelled.
C2_Witness ==
    \E k1, k2 \in Keys :
        /\ k1 # k2
        /\ lastOp[k1].op = "route" /\ lastOp[k1].at > 0
        /\ lastOp[k1].fnKey = Str(<<"gone">>)
        /\ lastOp[k2].op = "cancel"
        /\ After("route") /\ KeyOf(last.m) = k1

\* C3: cancel never fails and removes the pending continuation.  Whether or
\* not a continuation exists under the key, cancel does not throw and the key
\* is absent afterwards; a resolution of a key whose most recent route or
\* cancel was a cancel does not throw and leaves the inbound message without
\* an override.
C3_CancelThenResolve ==
    /\ After("cancel") =>
          /\ ~last.threw
          /\ StoreGet(store, KeyOf(last.m)) = Undefined
    /\ (After("receive") /\ lastOp[KeyOf(last.m)].op = "cancel") =>
          /\ ~last.threw
          /\ inbound.override = NoOverride

\* A key was cancelled while another holds a continuation, and an event of
\* the cancelled conversation was resolved.
C3_Witness ==
    /\ After("receive")
    /\ lastOp[KeyOf(last.m)].op = "cancel"
    /\ \E k \in Keys : lastOp[k].op = "route"

\* C7: a stale continuation is a silent no-op.  When attachOverrideRoute is
\* given a handler key the registry does not know, it does not throw, it
\* returns the message, the message has no override, and no call is made on
\* the store other than the receiver's read; when the registry knows the
\* key, an override is set.
C7_StaleIsNoOp ==
    After("receive") =>
        LET rec == StoreGet(store, KeyOf(last.m))
        IN  Pending(rec) =>
                IF rec.v.fnKey \in routes
                THEN /\ ~last.threw
                     /\ inbound.override # NoOverride
                     /\ last.ret = inbound
                ELSE /\ ~last.threw
                     /\ inbound = NewMessage(last.m)
                     /\ last.ret = inbound
                     /\ \A i \in 1..Len(last.calls) :
                           last.calls[i].fn \notin {"convoStore.set", "convoStore.del"}
                     /\ rec = ExpectedRecord(lastOp[KeyOf(last.m)].fnKey,
                                             lastOp[KeyOf(last.m)].state,
                                             lastOp[KeyOf(last.m)].secondsToExpire,
                                             lastOp[KeyOf(last.m)].at)

\* A continuation registered while its handler was known is resolved after
\* the handler was removed.
C7_Witness ==
    /\ After("receive")
    /\ Pending(StoreGet(store, KeyOf(last.m)))
    /\ StoreGet(store, KeyOf(last.m)).v.fnKey \notin routes
    /\ inbound.override = NoOverride

\* C8: route stores expiration = now + ttlSeconds * 1000, ttlSeconds being
\* 3600 when secondsToExpire is undefined, null or 0 and the given value
\* otherwise, and makes exactly one write to the store: one set, under the
\* conversation key of the message, and no other call.
C8_Expiration ==
    After("route") =>
        LET seconds == last.args[3]
            ttl == IF seconds \in {Undefined, Null, Num(0)} THEN 3600 ELSE seconds.v
        IN  /\ Len(last.calls) = 1
            /\ last.calls[1].fn = "convoStore.set"
            /\ last.calls[1].args[1] = KeyOf(last.m)
            /\ last.calls[1].args[2].v.expiration = Num(now + ttl * 1000)

\* A route with secondsToExpire = 0, made after the clock has advanced, wrote
\* an expiration one hour ahead; and one with 1 second wrote one second ahead.
C8_Witness ==
    /\ After("route")
    /\ last.args[3] = Num(0)
    /\ now > 0
    /\ last.calls[1].args[2].v.expiration = Num(now + 3600000)
    /\ \E k \in Keys :
          /\ lastOp[k].op = "route"
          /\ lastOp[k].secondsToExpire = Num(1)
          /\ StoreGet(store, k).v.expiration = Num(lastOp[k].at + 1000)

-----------------------------------------------------------------------------
(* Properties of the outbound dispatcher, checked under SpecDispatch *)

\* The callback invocation the error mapping of respond prescribes for an
\* outcome (err, body), by the first rule that matches.  A body carries an
\* error field when it is an object with a truthy error field, which is the
\* test the code makes.
CarriesError(body) ==
    body.t = "object" /\ "error" \in DOMAIN body.v /\ Truthy(body.v["error"])

HasRateLimitNotice(body) ==
    /\ body.t = "string"
    /\ \E i \in 1..Len(body.v) : body.v[i] = "You are sending too many requests. Please relax."

WithoutOk(body) ==
    IF body.t = "object"
    THEN Obj([f \in (DOMAIN body.v) \ {"ok"} |-> body.v[f]])
    ELSE body

Mapped(err, body) ==
    CASE err # Null -> <<err>>
      [] err = Null /\ CarriesError(body) -> <<Error(body.v["error"])>>
      [] err = Null /\ ~CarriesError(body) /\ HasRateLimitNotice(body) ->
            <<Error(Str(<<"rate_limit">>))>>
      [] OTHER -> <<Null, WithoutOk(body)>>

\* C4: respond maps each outcome of its HTTP POST to exactly one callback
\* invocation, with the arguments of the first matching rule: the transport
\* error; else an Error of the body's error field; else the 'rate_limit'
\* error for a string body with the rate-limit notice; else (null, body
\* without ok).
C4_ErrorMapping ==
    After("response") =>
        /\ Len(last.calls) = 1
        /\ last.calls[1] = Call(IF last.args[3] = Noop THEN "noop" ELSE "callback",
                                Mapped(last.args[1], last.args[2]))

\* C5: the response handler of respond never throws, whatever the outcome of
\* the HTTP call: a transport error, or no error with a body that is an
\* object, a string, or absent; with or without a callback of the caller.
C5_NeverThrows == After("response") => ~last.threw

\* The normalization of one candidate.
Normal(x) == IF x.t = "string" THEN Obj([text |-> x]) ELSE x

Elements(array) == {array[i] : i \in 1..Len(array)}

\* The payload say is to post for a normalized input n: every field of n,
\* and token and channel from the meta where n does not set them.
DefaultsApplied(n, meta) ==
    LET fields == IF n.t = "object" THEN n.v ELSE <<>>
    IN  Obj([f \in (DOMAIN fields) \cup {"token", "channel"} |->
                IF f \in DOMAIN fields THEN fields[f]
                ELSE IF f = "token"
                THEN (IF meta.bot_token # Undefined THEN meta.bot_token ELSE meta.app_token)
                ELSE meta.channel_id])

\* The normalized inputs say and respond may send for an input.
Candidates(input) ==
    IF input.t = "array"
    THEN IF input.v = <<>> THEN {Undefined} ELSE {Normal(x) : x \in Elements(input.v)}
    ELSE {Normal(input)}

\* C9: say posts the fields of the normalized input, with token
\* (bot_token, else app_token) and channel (channel_id) of the meta as
\* defaults: a token or channel that the input sets is the one that is sent.
C9_SayDefaults ==
    After("say") =>
        /\ Len(last.calls) = 1
        /\ last.calls[1].fn = "slack.chat.postMessage"
        /\ \E n \in Candidates(last.args[1]) :
              last.calls[1].args[1] = DefaultsApplied(n, msgs[last.m].meta)

\* What respond sent as the JSON body of its request.
Sent == last.calls[1].args[1].v.json

\* C10 as stated: for an array of candidates and every random draw,
\* _processInput returns the normalization of one element of the array, for
\* arrays of every length, the empty one included; plain text becomes
\* {text: value}; a structured object is returned unchanged.
C10_NormalizationForAll ==
    After("respond") =>
        LET input == last.args[2]
        IN  CASE input.t = "array" -> Sent \in {Normal(x) : x \in Elements(input.v)}
              [] input.t = "string" -> Sent = Obj([text |-> input])
              [] OTHER -> Sent = input

\* C10 as amended: the same for every array that is not empty; for the empty
\* array _processInput returns undefined.
C10_Normalization ==
    After("respond") =>
        LET input == last.args[2]
        IN  CASE input.t = "array" /\ input.v # <<>> ->
                    Sent \in {Normal(x) : x \in Elements(input.v)}
              [] input.t = "array" /\ input.v = <<>> -> Sent = Undefined
              [] input.t = "string" -> Sent = Obj([text |-> input])
              [] OTHER -> Sent = input

\* The last of three candidates, a plain text, was drawn and wrapped.
C10_Witness ==
    /\ After("respond")
    /\ last.args[2].t = "array"
    /\ Len(last.args[2].v) = 3
    /\ Sent = Obj([text |-> Str(<<"c">>)])

\* The calls that send something to the platform.
Outbound == {"slack.chat.postMessage", "request"}

OutboundCalls(calls) == {i \in 1..Len(calls) : calls[i].fn \in Outbound}

\* The callback say and respond use for the one the caller gave.
CallbackUsed(callback) == IF callback = Undefined THEN Fn("noop") ELSE callback

\* The outcomes the error mapping names: a transport error, or a response
\* with a body (a platform error, the rate-limit notice, or a success).
NamedOutcome(err, body) == err # Null \/ body \notin {Undefined, Null}

-----------------------------------------------------------------------------
(* Properties of the classifier and the mention parser, checked under      *)
(* SpecClassify                                                            *)

\* The message the latest operation was called on.
Subject == msgs[last.m]

\* An event of kind 'event' whose inner payload has type 'message'.
IsMessageEvent(msg) ==
    /\ msg.type = Str(<<"event">>)
    /\ "event" \in DOMAIN msg.body.v
    /\ msg.body.v["event"].v["type"] = Str(<<"message">>)

Predicates ==
    {"isMessage", "isDirectMention", "isDirectMessage", "isMention", "isAmbient", "isAnyOf"}
Extractors ==
    {"usersMentioned", "channelsMentioned", "subteamGroupsMentioned", "linksMentioned"}
Markers == {"everyoneMentioned", "channelMentioned", "hereMentioned"}

\* C12: for every event that is not a message event (another kind, no inner
\* event, or an inner event of another type), whatever the text, the channel
\* id and the bot user id, no operation throws, every predicate (isMessage,
\* isDirectMention, isDirectMessage, isMention, isAmbient, isAnyOf of every
\* filter list) returns false, stripDirectMention returns the empty string,
\* every extractor returns an empty sequence and every marker test false.
C12_NonMessageFalse ==
    (last # Idle /\ ~IsMessageEvent(Subject)) =>
        /\ ~last.threw
        /\ (last.op \in Predicates) => (last.ret = Bool(FALSE))
        /\ (last.op = "stripDirectMention") => (last.ret = Str(<<>>))
        /\ (last.op \in Extractors) => (last.ret = Arr(<<>>))
        /\ (last.op \in Markers) => (last.ret = Bool(FALSE))

\* The predicate of the message that a filter name stands for; none for a
\* name that is not one of the four.
FilterHolds(filter, msg) ==
    CASE filter = Str(<<"direct_message">>) -> isDirectMessage(msg).value = Bool(TRUE)
      [] filter = Str(<<"direct_mention">>) -> isDirectMention(msg).value = Bool(TRUE)
      [] filter = Str(<<"mention">>) -> isMention(msg).value = Bool(TRUE)
      [] filter = Str(<<"ambient">>) -> isAmbient(msg).value = Bool(TRUE)
      [] OTHER -> FALSE

TextOf(msg) == msg.body.v["event"].v["text"].v
TokenOf(msg) == <<"<", "@">> \o msg.meta.bot_user_id.v \o <<">">>

\* Two characters that are equal up to letter case.
SameLetter(a, b) ==
    \/ a = b
    \/ \E i \in DOMAIN UpperCase :
          {a, b} = {UpperCase[i], LowerCase[i]}

\* The token stands in the text at position i, in any letter case.
TokenAt(text, token, i) ==
    /\ i + Len(token) - 1 <= Len(text)
    /\ \A j \in 1..Len(token) : SameLetter(text[i + j - 1], token[j])

\* C14: for a message event, isDirectMention is true if and only if the
\* text begins at position zero with the mention token of the bot's own
\* user id, compared case-insensitively, and isMention is true if and only
\* if that token appears anywhere in the text; both return a boolean.  So a
\* text with the token only after other characters is a mention and not a
\* direct mention, and the token of another user makes neither true.
C14_Mentions ==
    /\ (After("isDirectMention") /\ IsMessageEvent(Subject)) =>
          last.ret = Bool(TokenAt(TextOf(Subject), TokenOf(Subject), 1))
    /\ (After("isMention") /\ IsMessageEvent(Subject)) =>
          last.ret = Bool(\E i \in 1..Len(TextOf(Subject)) :
                             TokenAt(TextOf(Subject), TokenOf(Subject), i))

\* A text in which the bot's token, in the other letter case, comes after a
\* word is not a direct mention, and it is a mention.
C14_Witness ==
    /\ After("isDirectMention")
    /\ IsMessageEvent(Subject)
    /\ Subject.meta.bot_user_id = Str(<<"U", "B">>)
    /\ TextOf(Subject) = <<" ", "h", "i", " ", "<", "@", "u", "b", ">">>
    /\ last.ret = Bool(FALSE)
    /\ isMention(Subject).value = Bool(TRUE)

\* A text without the whitespace at its two ends.
Trimmed(s) ==
    LET inked == {i \in 1..Len(s) : s[i] \notin {" ", "\n"}}
    IN  IF inked = {} THEN <<>>
        ELSE SubSeq(s, CHOOSE i \in inked : \A j \in inked : i <= j,
                       CHOOSE i \in inked : \A j \in inked : i >= j)

\* What follows the token in a text that starts with it, without one colon
\* that follows the token directly.
Remainder(text, token) ==
    LET rest == SubSeq(text, Len(token) + 1, Len(text))
    IN  IF rest # <<>> /\ Head(rest) = ":" THEN Tail(rest) ELSE rest

StartsWith(text, token) == Len(token) <= Len(text) /\ SubSeq(text, 1, Len(token)) = token

\* C15: stripDirectMention on a message event.  When the text starts with
\* the bot's mention token, it returns the whole remainder of the text after
\* that token and one optional following colon, up to the end of the text,
\* with the whitespace at its two ends trimmed; when the text does not start
\* with the token, it returns the text unchanged; it does not throw, and
\* the event is the same after the call as before.
C15_Strip ==
    /\ \A m \in DOMAIN msgs : stripDirectMention(msgs[m]).self = msgs[m]
    /\ (After("stripDirectMention") /\ IsMessageEvent(Subject)) =>
          /\ ~last.threw
          /\ last.ret = IF StartsWith(TextOf(Subject), TokenOf(Subject))
                        THEN Str(Trimmed(Remainder(TextOf(Subject), TokenOf(Subject))))
                        ELSE Str(TextOf(Subject))

\* The bracketed references of a text, in order: each is the text between a
\* '<' and the next '>', the text holding no other brackets.
RECURSIVE Bracketed(_)
Bracketed(text) ==
    IF \A i \in 1..Len(text) : text[i] # "<" THEN <<>>
    ELSE LET open == CHOOSE i \in 1..Len(text) :
                        text[i] = "<" /\ \A h \in 1..(i - 1) : text[h] # "<"
             close == CHOOSE i \in open..Len(text) :
                        text[i] = ">" /\ \A h \in open..(i - 1) : text[h] # ">"
         IN  <<SubSeq(text, open + 1, close - 1)>>
                 \o Bracketed(SubSeq(text, close + 1, Len(text)))

\* A reference is a link unless it is a user mention (@) or a channel
\* mention (#).
IsLinkReference(ref) == ref # <<>> /\ ref[1] \notin {"@", "#"}

WithoutLabel(ref) ==
    IF \E i \in 1..Len(ref) : ref[i] = "|"
    THEN SubSeq(ref, 1, (CHOOSE i \in 1..Len(ref) :
                            ref[i] = "|" /\ \A h \in 1..(i - 1) : ref[h] # "|") - 1)
    ELSE ref

\* The links of a text: its link references in order, without their labels.
LinksOf(text) ==
    LET links == SelectSeq(Bracketed(text), IsLinkReference)
    IN  [i \in 1..Len(links) |-> Str(WithoutLabel(links[i]))]

\* C16: for a message event whose text is any sequence of plain words,
\* links, labelled links, user mentions and channel mentions, linksMentioned
\* returns, in the order of the text, one entry for each bracketed link
\* reference, without its |label suffix, and no entry for a bracketed user
\* mention (<@U...>) or channel mention (<#C...>).
C16_Links ==
    (After("linksMentioned") /\ IsMessageEvent(Subject)) =>
        last.ret = Arr(LinksOf(TextOf(Subject)))

\* C18: stripDirectMention agrees with isDirectMention.  For every message
\* event, text and bot user id, in any letter case, stripDirectMention
\* removes the leading token (its result is not the text itself) if and only
\* if isDirectMention is true; and whenever isDirectMention is true, the
\* result does not begin with the bot's mention token.
C18_StripAgrees ==
    (After("stripDirectMention") /\ IsMessageEvent(Subject)) =>
        LET direct == isDirectMention(Subject).value = Bool(TRUE)
        IN  /\ ~last.threw
            /\ (last.ret # Str(TextOf(Subject))) <=> direct
            /\ direct => ~TokenAt(last.ret.v, TokenOf(Subject), 1)

\* C20: the addressing modes cover every message event.  For every message
\* event, a true isDirectMention implies a true isMention; isAmbient is true
\* exactly when neither isMention nor isDirectMessage is true, and false
\* otherwise, so it is never true together with isMention, isDirectMention
\* or isDirectMessage; and isAnyOf of the four modes is true.
C20_ModesCover ==
    (last # Idle /\ IsMessageEvent(Subject)) =>
        LET mention == isMention(Subject).value = Bool(TRUE)
            directMention == isDirectMention(Subject).value = Bool(TRUE)
            directMessage == isDirectMessage(Subject).value = Bool(TRUE)
        IN  /\ (last.op = "isDirectMention" /\ last.ret = Bool(TRUE)) => mention
            /\ (last.op = "isAmbient") =>
                  /\ last.ret = Bool(~mention /\ ~directMessage)
                  /\ (last.ret = Bool(TRUE)) => ~directMention
            /\ (last.op = "isAnyOf" /\ last.args[1] = AllFilters) =>
                  last.ret = Bool(TRUE)

\* A message in a channel that does not mention the bot (it mentions another
\* user) matched the four modes, being ambient only.
C20_Witness ==
    /\ After("isAnyOf")
    /\ last.args[1] = AllFilters
    /\ IsMessageEvent(Subject)
    /\ TextOf(Subject) = <<"<", "@", "U", "A", ">">>
    /\ Subject.meta.channel_id = Str(<<"C", "1">>)
    /\ isAmbient(Subject).value = Bool(TRUE)
    /\ last.ret = Bool(TRUE)

-----------------------------------------------------------------------------
(* Properties of the store and of the messages across all operations,      *)
(* checked under SpecCore                                                  *)

\* Every key under which the store holds something before or after a step.
StoreKeys == (DOMAIN store) \cup (DOMAIN store')

\* The step is a call of op.
Calls(op) == last' # Idle /\ last'.op = op

\* One step under lazy expiry: an entry of the store changes only in a route
\* or cancel call on its own key, so never in a step of the clock and never
\* in a resolution; and attachOverrideRoute, given the fields of a record,
\* sets the override for them and calls nothing but the route registry.
LazyExpiryStep ==
    /\ \A k \in StoreKeys :
          (StoreGet(store', k) # StoreGet(store, k)) =>
              /\ Calls("route") \/ Calls("cancel")
              /\ KeyOf(last'.m) = k
    /\ (now' # now) => (store' = store)
    /\ Calls("attachOverrideRoute") =>
          /\ inbound'.override = Override(Handler(last'.args[1]), last'.args[2])
          /\ \A i \in 1..Len(last'.calls) : last'.calls[i].fn = "getRoute"

\* C17: lazy expiry.  The passage of time alone never removes or changes a
\* stored continuation: a record written by route stays in the store,
\* unchanged, until the next route or cancel on the same conversation key,
\* also after the clock has passed its expiration; no operation evicts a
\* record because it is expired, and attachOverrideRoute sets the override
\* without looking at the expiration.
C17_LazyExpiry == [][LazyExpiryStep]_vars

\* The record of a conversation is still in the store when the clock has
\* reached its expiration, and attachOverrideRoute, given its fields, set
\* the override.
C17_Witness ==
    /\ After("attachOverrideRoute")
    /\ LET rec == StoreGet(store, KeyOf(last.m))
       IN  /\ rec # Undefined
           /\ rec.v.expiration.v <= now
           /\ inbound.override = Override(Handler(rec.v.fnKey), rec.v.state)

\* What identifies a message: its type, body, meta and conversation key.
Essence(msg) == <<msg.type, msg.body, msg.meta, msg.conversation_id>>

\* One step within the frame: a route or cancel call of a message changes
\* no store entry but the one under the conversation key of the message;
\* every other call (attachOverrideRoute, say, respond and its response, the
\* classifier and the mention parser) changes no store entry; and no call
\* changes the type, body, meta or conversation key of a message.
FrameStep ==
    (last' # Idle) =>
        /\ \A k \in StoreKeys :
              \/ StoreGet(store', k) = StoreGet(store, k)
              \/ (Calls("route") \/ Calls("cancel")) /\ k = KeyOf(last'.m)
        /\ \A m \in DOMAIN msgs : Essence(msgs'[m]) = Essence(msgs[m])
        /\ DOMAIN msgs' = DOMAIN msgs

\* C19: frame of the store.  A route or cancel call of a message with
\* conversation key k changes only the store entry under k and leaves the
\* entry of every other key unchanged; attachOverrideRoute, say, respond and
\* all classifier and mention-parser operations change no store entry at
\* all; and none of route, cancel, say and respond changes the message's
\* type, body, meta or conversation_id.
C19_Frame == [][FrameStep]_vars

\* A route was made on one conversation while the other held an earlier
\* record, which is still the one in the store.
C19_Witness ==
    /\ After("route")
    /\ \E k \in Keys :
          /\ k # KeyOf(last.m)
          /\ lastOp[k].op = "route"
          /\ lastOp[k].at < now
          /\ StoreGet(store, k) =
                ExpectedRecord(lastOp[k].fnKey, lastOp[k].state,
                               lastOp[k].secondsToExpire, lastOp[k].at)

====
